---- MODULE Spec2Model ----
(***************************************************************************)
(* A model of orangecontrib/text/nyt.py: the NYT article-search client.   *)
(*                                                                         *)
(* Python text that the code inspects character by character (the query,  *)
(* the API key, the year bounds, the text of a record's fields, dates) is *)
(* a sequence of one-character strings.  Text that the code only builds   *)
(* and compares (request URLs, cache keys, field names, keyword           *)
(* categories) is a TLA+ string, obtained from the former with Cat.       *)
(* A Python value is PyNone, PyStr(text), PyList(items) or PyObj(members); *)
(* JSON numbers and booleans are outside the model.  A record of a docs   *)
(* list and a keyword of a keywords list, which the code only looks       *)
(* members up in, are functions from the member names.                    *)
(* The alphabet of the texts is ASCII: the printable characters (but the   *)
(* grave accent) and the white-space control characters.                  *)
(* An operation that may raise yields [exc |-> <exception name>, ...],    *)
(* with exc = "none" when it returns.                                     *)
(***************************************************************************)
EXTENDS Integers, Sequences, FiniteSets, TLC

VARIABLES
    api_key,        \* self._api_key
    query_url,      \* self._query_url
    query_key,      \* self.query_key
    includes_fields,\* self.includes_fields
    cache,          \* the shelve store at cache_path: cache key -> raw response
    stored_by,      \* history: cache key -> the request URL whose response was stored
    today,          \* datetime.datetime.now().date(), <<year, month, day>>
    pc,             \* where the caller is: "idle", "call", "loop", "returned", "raised"
    max_records,    \* run_query's max_records
    num_steps,      \* run_query's num_steps
    page,           \* run_query's loop variable i
    records,        \* run_query's records
    lookups,        \* history: the _execute_query calls of the current run
    warned,         \* the warnings the current run has emitted
    result,         \* what the last call returned or raised
    passed,         \* history: the record list handed to _generate_corpus
    prev,           \* history: the previous run_query call
    runs,           \* number of run_query calls started
    args            \* arguments of a direct call of a module-level function

vars == <<api_key, query_url, query_key, includes_fields, cache, stored_by,
          today, pc, max_records, num_steps, page, records, lookups, warned,
          result, passed, prev, runs, args>>

----------------------------------------------------------------------------
(* Python values *)

PyNone == [t |-> "none"]
PyStr(cs) == [t |-> "str", v |-> cs]
PyList(items) == [t |-> "list", v |-> items]
\* a dict made by json.loads: the members <<key, value>> in the order of the
\* text, a key being the characters of a str
PyObj(members) == [t |-> "obj", v |-> members]
\* "key not in doc": the record has no such key
Absent == [t |-> "absent"]

\* key in x, of a dict
HasKey(x, key) == \E i \in 1..Len(x.v) : x.v[i][1] = key
\* x[key] of a dict that has the key: a key the text lists twice has its last value
Get(x, key) ==
    x.v[CHOOSE i \in 1..Len(x.v) :
            x.v[i][1] = key /\ \A j \in (i + 1)..Len(x.v) : x.v[j][1] # key][2]
\* list(x) of a dict: its keys, a key the text lists twice in its first place
RECURSIVE KeysFrom(_, _)
KeysFrom(members, seen) ==
    IF members = <<>> THEN <<>>
    ELSE IF Head(members)[1] \in seen THEN KeysFrom(Tail(members), seen)
    ELSE <<Head(members)[1]>> \o KeysFrom(Tail(members), seen \cup {Head(members)[1]})
Keys(x) == KeysFrom(x.v, {})
\* list(x.values()) of a dict
Values(x) == [k \in 1..Len(Keys(x)) |-> Get(x, Keys(x)[k])]

\* bool(x): None, "", [] and {} are false
Truthy(x) == x.t # "none" /\ x.v # <<>>

\* a keyword without members; bool(kw) of a keyword is false for it alone
EmptyObj == [k \in {} |-> <<>>]
ObjTruthy(o) == DOMAIN o # {}

----------------------------------------------------------------------------
(* str operations *)

RECURSIVE Cat(_)
Cat(cs) == IF cs = <<>> THEN "" ELSE Head(cs) \o Cat(Tail(cs))

\* sep.join(parts), parts being sequences of characters
RECURSIVE Join(_, _)
Join(sep, parts) ==
    IF parts = <<>> THEN <<>>
    ELSE IF Len(parts) = 1 THEN parts[1]
    ELSE parts[1] \o sep \o Join(sep, Tail(parts))

\* sep.join(parts), parts being TLA+ strings
RECURSIVE JoinS(_, _)
JoinS(sep, parts) ==
    IF parts = <<>> THEN ""
    ELSE IF Len(parts) = 1 THEN parts[1]
    ELSE parts[1] \o sep \o JoinS(sep, Tail(parts))

\* s.split(sep) with a one-character sep: never empty, keeps empty pieces
RECURSIVE SplitFrom(_, _, _)
SplitFrom(cs, sep, cur) ==
    IF cs = <<>> THEN <<cur>>
    ELSE IF Head(cs) = sep THEN <<cur>> \o SplitFrom(Tail(cs), sep, <<>>)
    ELSE SplitFrom(Tail(cs), sep, Append(cur, Head(cs)))
Split(cs, sep) == SplitFrom(cs, sep, <<>>)

\* the characters str.strip() removes: space, \t, \n, \f, \r and the control
\* characters 0x0B, 0x1C, 0x1D, 0x1E, 0x1F
VT == ""
FS == ""
GS == ""
RS == ""
US == ""
IsSpace(c) == c \in {" ", "\t", "\n", "\f", "\r", VT, FS, GS, RS, US}
RECURSIVE LStrip(_)
LStrip(cs) == IF cs # <<>> /\ IsSpace(Head(cs)) THEN LStrip(Tail(cs)) ELSE cs
RECURSIVE RStrip(_)
RStrip(cs) ==
    IF cs # <<>> /\ IsSpace(cs[Len(cs)]) THEN RStrip(SubSeq(cs, 1, Len(cs) - 1)) ELSE cs
\* s.strip()
Strip(cs) == RStrip(LStrip(cs))

Digits == <<"0", "1", "2", "3", "4", "5", "6", "7", "8", "9">>
\* s.isdigit()
IsDigit(cs) == cs # <<>> /\ \A k \in 1..Len(cs) : \E d \in 1..10 : cs[k] = Digits[d]

\* n as w decimal digits, zero-padded
RECURSIVE Dec(_, _)
Dec(n, w) == IF w = 0 THEN <<>> ELSE Append(Dec(n \div 10, w - 1), Digits[(n % 10) + 1])

\* needle in hay, of two str
IsSubstring(needle, hay) ==
    \E i \in 0..(Len(hay) - Len(needle)) : SubSeq(hay, i + 1, i + Len(needle)) = needle

\* s[:k] of a list
PySliceTo(s, k) ==
    LET stop == IF k < 0 THEN (IF Len(s) + k < 0 THEN 0 ELSE Len(s) + k)
                ELSE (IF k > Len(s) THEN Len(s) ELSE k)
    IN SubSeq(s, 1, stop)

----------------------------------------------------------------------------
(* _parse_record_json *)

NYT_TEXT_FIELDS == <<"headline", "lead_paragraph", "snippet", "abstract", "keywords">>

\* [val for val in doc[field].values() if val]
DictValues(x) == SelectSeq(Values(x), Truthy)

\* lines 33-40: the text of a field the record has; str.join raises on a value
\* that is no str
FieldValue(x) ==
    IF x.t = "obj" THEN
        LET kept == DictValues(x) IN
        IF \E k \in 1..Len(kept) : kept[k].t # "str"
        THEN [exc |-> "TypeError", val |-> <<>>]
        ELSE [exc |-> "none", val |-> Join(<<" ">>, [k \in 1..Len(kept) |-> kept[k].v])]
    ELSE IF x.t = "list" THEN
        LET kws == SelectSeq(x.v, ObjTruthy) IN
        IF \E k \in 1..Len(kws) : "value" \notin DOMAIN kws[k]
        THEN [exc |-> "KeyError", val |-> <<>>]
        ELSE [exc |-> "none", val |-> Join(<<" ">>, [k \in 1..Len(kws) |-> kws[k].value])]
    ELSE IF Truthy(x) THEN [exc |-> "none", val |-> x.v]
    ELSE [exc |-> "none", val |-> <<>>]

\* lines 31-41: one entry per configured field that the record has
RECURSIVE FieldEntries(_, _)
FieldEntries(doc, fields) ==
    IF fields = <<>> THEN [exc |-> "none", row |-> <<>>]
    ELSE LET f == Head(fields)
             rest == FieldEntries(doc, Tail(fields))
         IN IF doc[f].t = "absent" THEN rest
            ELSE LET fv == FieldValue(doc[f]) IN
                 IF fv.exc # "none" THEN [exc |-> fv.exc, row |-> <<>>]
                 ELSE IF rest.exc # "none" THEN rest
                 ELSE [exc |-> "none", row |-> <<PyStr(fv.val)>> \o rest.row]

\* line 43: doc.get("pub_date", "")
PubDate(doc) == IF doc["pub_date"].t = "absent" THEN PyStr(<<>>) ELSE doc["pub_date"]

\* a filter that lets every category through
IsAnyCategory(kw) == kw.name # ""
\* line 45: ",".join([kw["value"] for kw in doc["keywords"] if kw["name"] == "glocations"])
IsGlocation(kw) == kw.name = "glocations"
Glocations(doc) ==
    LET x == doc["keywords"] IN
    IF x.t = "absent" THEN [exc |-> "KeyError", val |-> <<>>]
    \* None is not iterable
    ELSE IF x.t = "none" THEN [exc |-> "TypeError", val |-> <<>>]
    \* a str yields its characters and a dict its keys, and kw["name"] of a str
    \* raises; "" and {} yield nothing
    ELSE IF x.t \in {"str", "obj"} THEN
        IF x.v = <<>> THEN [exc |-> "none", val |-> <<>>]
        ELSE [exc |-> "TypeError", val |-> <<>>]
    ELSE IF \E k \in 1..Len(x.v) : "name" \notin DOMAIN x.v[k]
    THEN [exc |-> "KeyError", val |-> <<>>]
    ELSE LET g == SelectSeq(x.v, IsGlocation) IN
         IF \E k \in 1..Len(g) : "value" \notin DOMAIN g[k]
         THEN [exc |-> "KeyError", val |-> <<>>]
         ELSE [exc |-> "none", val |-> Join(<<",">>, [k \in 1..Len(g) |-> g[k].value])]

\* line 48: doc.get("section_name", None)
SectionName(doc) == IF doc["section_name"].t = "absent" THEN PyNone ELSE doc["section_name"]

\* line 50: None if v is "" else v; CPython has one empty str object, so the
\* identity test is the equality test
BlankToNone(v) == IF v = PyStr(<<>>) THEN PyNone ELSE v

\* lines 30-50: metas_row of a record that is a JSON object
RecordRow(doc, fields) ==
    LET fe == FieldEntries(doc, fields)
        gl == Glocations(doc)
    IN IF fe.exc # "none" THEN [exc |-> fe.exc, row |-> <<>>]
       ELSE IF gl.exc # "none" THEN [exc |-> gl.exc, row |-> <<>>]
       ELSE LET raw == fe.row \o <<PubDate(doc), PyStr(gl.val)>>
            IN [exc |-> "none", row |-> [k \in 1..Len(raw) |-> BlankToNone(raw[k])]]

\* the member names the code looks up in a record, and their characters
MemberNames ==
    {"headline", "lead_paragraph", "snippet", "abstract", "keywords", "pub_date",
     "section_name"}
NameChars(f) ==
    CASE f = "headline" -> <<"h", "e", "a", "d", "l", "i", "n", "e">>
      [] f = "lead_paragraph" ->
            <<"l", "e", "a", "d", "_", "p", "a", "r", "a", "g", "r", "a", "p", "h">>
      [] f = "snippet" -> <<"s", "n", "i", "p", "p", "e", "t">>
      [] f = "abstract" -> <<"a", "b", "s", "t", "r", "a", "c", "t">>
      [] f = "keywords" -> <<"k", "e", "y", "w", "o", "r", "d", "s">>
      [] f = "pub_date" -> <<"p", "u", "b", "_", "d", "a", "t", "e">>
      [] f = "section_name" ->
            <<"s", "e", "c", "t", "i", "o", "n", "_", "n", "a", "m", "e">>

\* a record is a function from the member names, not a Python value of another type
IsRecord(doc) == "t" \notin DOMAIN doc
\* a dict of the docs list as a record
AsRecord(x) ==
    [f \in MemberNames |-> IF HasKey(x, NameChars(f)) THEN Get(x, NameChars(f)) ELSE Absent]

\* lines 30-50 on an item of the docs list that is no JSON object: "field in doc"
\* is a substring test on a str, a membership test on a list and a TypeError on
\* None; doc[field] then raises TypeError, and doc.get raises AttributeError
OtherRow(x, fields) ==
    LET found(f) ==
            CASE x.t = "str" -> IsSubstring(NameChars(f), x.v)
              [] x.t = "list" -> \E k \in 1..Len(x.v) : x.v[k] = PyStr(NameChars(f))
              [] OTHER -> TRUE
    IN IF \E k \in 1..Len(fields) : found(fields[k])
       THEN [exc |-> "TypeError", row |-> <<>>]
       ELSE [exc |-> "AttributeError", row |-> <<>>]

\* lines 30-50: metas_row of one item of the docs list
MetasRow(doc, fields) ==
    IF IsRecord(doc) THEN RecordRow(doc, fields)
    ELSE IF doc.t = "obj" THEN RecordRow(AsRecord(doc), fields)
    ELSE OtherRow(doc, fields)

\* line 48 on an item that reached it
ClassValue(doc) == SectionName(IF IsRecord(doc) THEN doc ELSE AsRecord(doc))

\* lines 27-53; np.vstack raises ValueError on a row whose width is not the array's
RECURSIVE ParseFrom(_, _, _, _)
ParseFrom(recs, fields, metadata, class_values) ==
    IF recs = <<>> THEN [exc |-> "none", metadata |-> metadata, class_values |-> class_values]
    ELSE LET mr == MetasRow(Head(recs), fields) IN
         IF mr.exc # "none"
         THEN [exc |-> mr.exc, metadata |-> metadata, class_values |-> class_values]
         ELSE IF Len(mr.row) # Len(fields) + 2
         THEN [exc |-> "ValueError", metadata |-> metadata, class_values |-> class_values]
         ELSE ParseFrom(Tail(recs), fields, Append(metadata, mr.row),
                        Append(class_values, ClassValue(Head(recs))))
parse_record_json(recs, includes_metadata) == ParseFrom(recs, includes_metadata, <<>>, <<>>)

----------------------------------------------------------------------------
(* _date_to_str *)

\* datetime.date.isoformat(): YYYY-MM-DD
IsoFormat(d) == Dec(d[1], 4) \o <<"-">> \o Dec(d[2], 2) \o <<"-">> \o Dec(d[3], 2)

\* lines 63-65
date_to_str(input_date) ==
    LET iso == IsoFormat(input_date)
        date_part == Split(Split(Strip(iso), "T")[1], "-")
    IN date_part[1] \o date_part[2] \o date_part[3]

----------------------------------------------------------------------------
(* _generate_corpus *)

\* [d for d in doc if d is not None]
NotNone(x) == x # PyNone
Texts(row) == LET kept == SelectSeq(row, NotNone) IN [k \in 1..Len(kept) |-> kept[k].v]

\* line 80
Document(row) == Strip(Join(<<" ">>, Texts(row)))
\* line 80: str.join raises on an entry that is neither None nor a str
DocumentRaises(row) == \E k \in 1..Len(row) : row[k].t \notin {"none", "str"}

Range(s) == {s[k] : k \in 1..Len(s)}

\* list(set(class_values)): the distinct values, in an order the set decides
Orderings(S) ==
    {s \in [1..Cardinality(S) -> S] : \A a, b \in 1..Cardinality(S) : a # b => s[a] # s[b]}

\* DiscreteVariable.to_val: None is the unknown value, a label is its index in values
to_val(values, cv) ==
    IF cv = PyNone THEN [t |-> "nan"]
    ELSE [t |-> "val", v |-> (CHOOSE k \in 1..Len(values) : values[k] = cv) - 1]

\* set(class_values) with the unknown label always in it
LabelSetWithNone(class_values) == Range(class_values) \cup {PyNone}
\* set(class_values)
LabelSet(class_values) == Range(class_values)

\* lines 77-85: the exception _generate_corpus ends with, "none" if it returns;
\* set() raises on a list or a dict, which are not hashable
CorpusExc(parsed) ==
    IF parsed.exc # "none" THEN parsed.exc
    ELSE IF \E k \in 1..Len(parsed.metadata) : DocumentRaises(parsed.metadata[k])
    THEN "TypeError"
    ELSE IF \E k \in 1..Len(parsed.class_values) : parsed.class_values[k].t \in {"list", "obj"}
    THEN "TypeError"
    ELSE "none"

\* lines 77-90; values is the order list(set(class_values)) came out in
generate_corpus(recs, required_text_fields, values) ==
    LET parsed == parse_record_json(recs, required_text_fields) IN
    IF CorpusExc(parsed) # "none" THEN [exc |-> CorpusExc(parsed)]
    ELSE [exc |-> "none",
          documents |-> [k \in 1..Len(parsed.metadata) |-> Document(parsed.metadata[k])],
          Y |-> [k \in 1..Len(parsed.class_values) |-> to_val(values, parsed.class_values[k])],
          metas |-> parsed.metadata,
          class_var_values |-> values,
          meta_vars |-> required_text_fields \o <<"pub_date", "country">>]

----------------------------------------------------------------------------
(* NYT: building the request URL and the cache key *)

base_url == "http://api.nytimes.com/svc/search/v2/articlesearch.json"

\* the printable ASCII characters from code 32 to code 95 and, the grave accent
\* of code 96 left out, from code 97 to code 126
PrintableLow ==
    <<" ", "!", "\"", "#", "$", "%", "&", "'", "(", ")", "*", "+", ",", "-", ".", "/",
      "0", "1", "2", "3", "4", "5", "6", "7", "8", "9", ":", ";", "<", "=", ">", "?",
      "@", "A", "B", "C", "D", "E", "F", "G", "H", "I", "J", "K", "L", "M", "N", "O",
      "P", "Q", "R", "S", "T", "U", "V", "W", "X", "Y", "Z", "[", "\\", "]", "^", "_">>
PrintableHigh ==
    <<"a", "b", "c", "d", "e", "f", "g", "h", "i", "j", "k", "l", "m", "n", "o",
      "p", "q", "r", "s", "t", "u", "v", "w", "x", "y", "z", "{", "|", "}", "~">>
\* ord(c)
Ord(c) ==
    CASE c = "\t" -> 9
      [] c = "\n" -> 10
      [] c = VT -> 11
      [] c = "\f" -> 12
      [] c = "\r" -> 13
      [] c = FS -> 28
      [] c = GS -> 29
      [] c = RS -> 30
      [] c = US -> 31
      [] \E k \in 1..Len(PrintableHigh) : PrintableHigh[k] = c ->
            96 + CHOOSE k \in 1..Len(PrintableHigh) : PrintableHigh[k] = c
      [] OTHER -> 31 + CHOOSE k \in 1..Len(PrintableLow) : PrintableLow[k] = c
HexDigits == <<"0", "1", "2", "3", "4", "5", "6", "7", "8", "9", "A", "B", "C", "D", "E", "F">>
\* the characters quote never escapes: letters, digits and _ . - ~
AlwaysSafe(c) ==
    \/ Ord(c) \in 48..57
    \/ Ord(c) \in 65..90
    \/ Ord(c) \in 97..122
    \/ c \in {"_", ".", "-", "~"}
\* urllib.parse.quote_plus on one character: a space is +, an unsafe character %XX
QuoteChar(c) ==
    IF c = " " THEN "+"
    ELSE IF AlwaysSafe(c) THEN c
    ELSE "%" \o HexDigits[(Ord(c) \div 16) + 1] \o HexDigits[(Ord(c) % 16) + 1]
RECURSIVE QuotePlus(_)
QuotePlus(cs) == IF cs = <<>> THEN "" ELSE QuoteChar(Head(cs)) \o QuotePlus(Tail(cs))

\* lines 259-266: parse.urlencode([("q", query), ("fq", "The New York Times"), ("api-key", key)])
encode_base_url(key, query) ==
    "q=" \o QuotePlus(query) \o "&fq=The+New+York+Times" \o "&api-key=" \o QuotePlus(key)

\* year and year.isdigit()
YearGiven(year) == year.t = "str" /\ year.v # <<>> /\ IsDigit(year.v)

\* lines 194-195, 213-216: the cache key of a query
QueryKey(query, sdate, edate, text_includes) ==
    JoinS("_", <<Cat(sdate), Cat(edate)>>
               \o [k \in 1..Len(Split(query, " ")) |-> Cat(Split(query, " ")[k])]
               \o text_includes)

\* lines 179-216
set_endpoint_url(key, query, year_from, year_to, text_includes, now) ==
    LET sdate == IF YearGiven(year_from) THEN year_from.v \o <<"0", "1", "0", "1">>
                 ELSE date_to_str(<<1851, 1, 1>>)
        edate == IF YearGiven(year_to) THEN year_to.v \o <<"1", "2", "3", "1">>
                 ELSE date_to_str(now)
        u0 == encode_base_url(key, query)
        u1 == IF YearGiven(year_from) THEN u0 \o "&begin_date=" \o Cat(sdate) ELSE u0
        u2 == IF YearGiven(year_to) THEN u1 \o "&end_date=" \o Cat(edate) ELSE u1
        u3 == IF text_includes # <<>> THEN u2 \o "&fl=" \o JoinS(",", text_includes) ELSE u2
        u4 == u3 \o ",pub_date" \o ",section_name"
        u5 == IF "keywords" \notin Range(text_includes) THEN u4 \o ",keywords" ELSE u4
    IN [query_url |-> base_url \o "?" \o u5,
        query_key |-> QueryKey(query, sdate, edate, text_includes),
        includes_fields |-> text_includes]

\* str(page)
RECURSIVE IntStr(_)
IntStr(n) == IF n < 10 THEN Digits[n + 1] ELSE IntStr(n \div 10) \o Digits[(n % 10) + 1]

\* line 235
CurrentQuery(url, p) == url \o "&page=" \o IntStr(p)
\* line 236 without the page
CurrentQueryKeyNoPage(qkey, p) == qkey \o "_"
\* line 236
CurrentQueryKey(qkey, p) == qkey \o "_" \o IntStr(p)

\* math.ceil(a / b) for b > 0
CeilDiv(a, b) == -((-a) \div b)
Min(a, b) == IF a < b THEN a ELSE b

PageSize == 10
MaxPages == 100
WarnLimit == 1000

\* line 158 without the cap
NumStepsNoCap(m) == CeilDiv(m, PageSize)
\* line 158
NumSteps(m) == Min(CeilDiv(m, PageSize), MaxPages)

\* lines 168-169 with the difference the other way round
TrimInverted(recs, m) == IF Len(recs) > m THEN PySliceTo(recs, Len(recs) - m) ELSE recs
\* lines 168-169
Trim(recs, m) == IF Len(recs) > m THEN PySliceTo(recs, m - Len(recs)) ELSE recs

----------------------------------------------------------------------------
(* The network and the responses it gives *)

\* a raw response text: valid JSON carrying data, or text json.loads rejects
NotJson == [valid |-> FALSE, data |-> PyNone]
Json(data) == [valid |-> TRUE, data |-> data]
\* JSON documents: null, {}, {"response": {}}, {"response": {"docs": x}} for
\* a list, a str or an object x, {"response": null}, {"response": {"docs": null}}
\* and a bare JSON string
ResponseWord == <<"r", "e", "s", "p", "o", "n", "s", "e">>
DocsWord == <<"d", "o", "c", "s">>

JsonNull == Json(PyNone)
NoResponse == Json(PyObj(<<>>))
NoDocs == Json(PyObj(<<<<ResponseWord, PyObj(<<>>)>>>>))
DocsIs(x) == Json(PyObj(<<<<ResponseWord, PyObj(<<<<DocsWord, x>>>>)>>>>))
Docs(ds) == DocsIs(PyList(ds))
NullResponse == Json(PyObj(<<<<ResponseWord, PyNone>>>>))
NullDocs == DocsIs(PyNone)
JsonStr(cs) == Json(PyStr(cs))

\* json.loads
json_loads(raw) ==
    IF raw.valid THEN [exc |-> "none", data |-> raw.data]
    ELSE [exc |-> "ValueError", data |-> PyNone]

\* key in x, word being the characters of key: a key of a dict, a substring
\* of a str, an item of a list; None is not iterable
In(word, x) ==
    CASE x.t = "obj" -> [exc |-> "none", in |-> HasKey(x, word)]
      [] x.t = "str" -> [exc |-> "none", in |-> IsSubstring(word, x.v)]
      [] x.t = "list" -> [exc |-> "none", in |-> \E k \in 1..Len(x.v) : x.v[k] = PyStr(word)]
      [] OTHER -> [exc |-> "TypeError", in |-> FALSE]

\* line 162: (data is None) or ('response' not in data) or ('docs' not in data['response']);
\* data['response'] of a str or a list raises
Failure(data) ==
    IF data = PyNone THEN [exc |-> "none", failure |-> TRUE]
    ELSE LET hasR == In(ResponseWord, data) IN
         IF hasR.exc # "none" THEN [exc |-> hasR.exc, failure |-> FALSE]
         ELSE IF ~hasR.in THEN [exc |-> "none", failure |-> TRUE]
         ELSE IF data.t # "obj" THEN [exc |-> "TypeError", failure |-> FALSE]
         ELSE LET hasD == In(DocsWord, Get(data, ResponseWord)) IN
              IF hasD.exc # "none" THEN [exc |-> hasD.exc, failure |-> FALSE]
              ELSE [exc |-> "none", failure |-> ~hasD.in]

\* what list.extend(x) appends: the items of a list, the characters of a str,
\* the keys of a dict; None is not iterable
Iterated(x) ==
    CASE x.t = "list" -> [exc |-> "none", docs |-> x.v]
      [] x.t = "str" -> [exc |-> "none", docs |-> [k \in 1..Len(x.v) |-> PyStr(<<x.v[k]>>)]]
      [] x.t = "obj" -> [exc |-> "none", docs |-> [k \in 1..Len(Keys(x)) |-> PyStr(Keys(x)[k])]]
      [] OTHER -> [exc |-> "TypeError", docs |-> <<>>]

\* line 166: the items data["response"]["docs"] gives records.extend; subscripting
\* a str or a list with "docs" raises
DocsOf(data) ==
    LET r == Get(data, ResponseWord) IN
    IF r.t # "obj" THEN [exc |-> "TypeError", docs |-> <<>>]
    ELSE Iterated(Get(r, DocsWord))

\* lines 162-166: whether the page is skipped, and the records it adds if not
PageStep(data) ==
    LET f == Failure(data) IN
    IF f.exc # "none" THEN [exc |-> f.exc, failure |-> FALSE, docs |-> <<>>]
    ELSE IF f.failure THEN [exc |-> "none", failure |-> TRUE, docs |-> <<>>]
    ELSE LET d == DocsOf(data) IN [exc |-> d.exc, failure |-> FALSE, docs |-> d.docs]

\* what lines 246-247 do on a cache miss: urlopen raises, or it returns and
\* reading the response raises (the response object has no readall, the bytes
\* are not UTF-8), or the body is read
HTTPError == [kind |-> "HTTPError", raw |-> NotJson]
URLError == [kind |-> "URLError", raw |-> NotJson]
NoReadall == [kind |-> "AttributeError", raw |-> NotJson]
NotUtf8 == [kind |-> "UnicodeDecodeError", raw |-> NotJson]
Body(raw) == [kind |-> "body", raw |-> raw]
\* the exceptions the except clause of line 253 catches
TransportErrors == {"HTTPError", "URLError"}

\* lines 126-129: what the validation probe concludes
check_api_key(probe) ==
    CASE probe = "200" -> [exc |-> "none", valid |-> TRUE]
      [] probe = "HTTPError" -> [exc |-> "none", valid |-> FALSE]
      [] probe = "URLError" -> [exc |-> "URLError", valid |-> FALSE]
      [] OTHER -> [exc |-> "none", valid |-> FALSE]

----------------------------------------------------------------------------
(* Records *)

Doc(h, lp, sn, ab, kw, pd, sec) ==
    [headline |-> h, lead_paragraph |-> lp, snippet |-> sn, abstract |-> ab,
     keywords |-> kw, pub_date |-> pd, section_name |-> sec]

Kw(name, value) == [name |-> name, value |-> value]
GlocP == Kw("glocations", <<"P">>)
GlocR == Kw("glocations", <<"R">>)
SubjA == Kw("subject", <<"A">>)
PersB == Kw("persons", <<"B">>)

\* a full record: a headline object with an empty and a null member, a null abstract
DocA == Doc(PyObj(<<<<<<"m">>, PyStr(<<"h">>)>>, <<<<"p">>, PyStr(<<>>)>>,
                    <<<<"n">>, PyNone>>, <<<<"k">>, PyStr(<<"k">>)>>>>),
            PyStr(<<"l", " ">>), PyStr(<<"s">>), PyNone,
            PyList(<<GlocP, SubjA, GlocR>>), PyStr(<<"2", "0">>), PyStr(<<"W">>))
\* a record whose every field is present and empty, with no date and no section
DocB == Doc(PyObj(<<>>), PyStr(<<>>), PyNone, PyStr(<<>>), PyList(<<>>), Absent, Absent)
\* a record without an abstract
DocC == Doc(PyStr(<<"c">>), PyStr(<<"l">>), PyStr(<<"s">>), Absent,
            PyList(<<SubjA>>), PyStr(<<"2", "1">>), PyStr(<<"U">>))
\* a record without keywords
DocD == Doc(PyStr(<<"d">>), PyStr(<<"l">>), PyStr(<<"s">>), PyStr(<<"a">>),
            Absent, PyStr(<<"2", "1">>), PyStr(<<"U">>))
\* a second full record, of another section
DocE == Doc(PyStr(<<"e">>), PyNone, PyStr(<<"s">>), PyStr(<<"a">>),
            PyList(<<PersB>>), PyStr(<<"2", "2">>), PyStr(<<"U">>))

----------------------------------------------------------------------------
(* Bounds and inputs *)

\* run_query calls in one behaviour
MaxRuns == 2
\* page indices whose response the network chooses freely; later pages answer
\* with an empty docs list
FreePages == 1

Key0 == <<"\f", " ", "k", "\r", VT>>
KeyInputs == {Key0, <<"j", "/", "1">>}
Query0 == <<"a", " ", "b">>
Today0 == <<2026, 12, 30>>

NoPrev == [run |-> 0]
\* result: the exception raised ("none": returned), where, and the value returned
ResultOf(exc, at, value) == [exc |-> exc, at |-> at, value |-> value]
NoResult == ResultOf("none", "none", PyNone)

----------------------------------------------------------------------------
(* State after NYT(api_key), lines 99-116, with an empty cache store *)

InitWith(k, now) ==
    /\ api_key = Strip(k)
    /\ query_url = PyNone
    /\ query_key = PyNone
    /\ includes_fields = PyNone
    /\ cache = <<>>
    /\ stored_by = <<>>
    /\ today = now
    /\ pc = "idle"
    /\ max_records = 0
    /\ num_steps = 0
    /\ page = 0
    /\ records = <<>>
    /\ lookups = <<>>
    /\ warned = {}
    /\ result = NoResult
    /\ passed = <<>>
    /\ prev = NoPrev
    /\ runs = 0
    /\ args = <<>>

----------------------------------------------------------------------------
(* NYT.__init__ of a further instance on the same cache store *)

Construct(k) ==
    /\ pc \in {"idle", "returned", "raised"}
    /\ api_key' = Strip(k)
    /\ query_url' = PyNone
    /\ query_key' = PyNone
    /\ includes_fields' = PyNone
    /\ pc' = "idle"
    /\ UNCHANGED <<cache, stored_by, today, max_records, num_steps, page, records,
                   lookups, warned, result, passed, prev, runs, args>>

\* the calendar of datetime.date
IsLeap(y) == (y % 4 = 0 /\ y % 100 # 0) \/ y % 400 = 0
DaysIn(y, m) ==
    IF m = 2 THEN (IF IsLeap(y) THEN 29 ELSE 28)
    ELSE IF m \in {4, 6, 9, 11} THEN 30
    ELSE 31
\* the clock passes midnight
NextDay(d) ==
    IF d[3] < DaysIn(d[1], d[2]) THEN <<d[1], d[2], d[3] + 1>>
    ELSE IF d[2] < 12 THEN <<d[1], d[2] + 1, 1>>
    ELSE <<d[1] + 1, 1, 1>>

DayPasses(last) ==
    /\ pc \in {"idle", "returned", "raised"}
    /\ today # last
    /\ today' = NextDay(today)
    /\ UNCHANGED <<api_key, query_url, query_key, includes_fields, cache, stored_by,
                   pc, max_records, num_steps, page, records, lookups, warned,
                   result, passed, prev, runs, args>>

----------------------------------------------------------------------------
(* NYT.run_query, lines 148-159: up to the page loop *)

RunQuery(query, year_from, year_to, m, probe) ==
    /\ pc \in {"idle", "returned", "raised"}
    /\ runs < MaxRuns
    /\ runs' = runs + 1
    /\ prev' = [run |-> runs, query_url |-> query_url, query_key |-> query_key,
                max_records |-> max_records, lookups |-> lookups, passed |-> passed,
                pc |-> pc, exc |-> result.exc]
    /\ max_records' = m
    /\ page' = 0
    /\ records' = <<>>
    /\ lookups' = <<>>
    /\ passed' = <<>>
    /\ LET probed == check_api_key(probe) IN
       IF probed.exc # "none"
       THEN /\ pc' = "raised"
            /\ result' = ResultOf(probed.exc, "probe", PyNone)
            /\ warned' = {}
            /\ num_steps' = 0
            /\ UNCHANGED <<query_url, query_key, includes_fields>>
       ELSE LET e == set_endpoint_url(api_key, query, year_from, year_to,
                                      NYT_TEXT_FIELDS, today)
            IN /\ query_url' = PyStr(e.query_url)
               /\ query_key' = PyStr(e.query_key)
               /\ includes_fields' = IF NYT_TEXT_FIELDS # <<>> THEN e.includes_fields
                                     ELSE includes_fields
               /\ warned' = (IF probed.valid THEN {} ELSE {"api key not valid"})
                            \cup (IF m > WarnLimit THEN {"more than 1000 records"} ELSE {})
               /\ num_steps' = NumSteps(m)
               /\ pc' = "loop"
               /\ result' = NoResult
    /\ UNCHANGED <<api_key, cache, stored_by, today, args>>

----------------------------------------------------------------------------
(* One turn of the page loop: _execute_query(i), lines 228-257, then lines 162-166 *)

\* history of one _execute_query call: the page, whether the store answered, what the
\* network did ("none": not asked), how the turn ended ("ok", "skipped", "raised")
\* and the records it contributed
Lookup(p, cached, net, outcome, got) ==
    [page |-> p, cached |-> cached, net |-> net, outcome |-> outcome, docs |-> got]

\* an exception leaves _execute_query or the loop body: run_query ends with it
PageRaised(exc, cached, net) ==
    /\ pc' = "raised"
    /\ result' = ResultOf(exc, "page", PyNone)
    /\ lookups' = Append(lookups, Lookup(page, cached, net, "raised", <<>>))
    /\ UNCHANGED <<records, warned, page>>

\* lines 162-166, data being what _execute_query returned
PageDone(data, cached, net) ==
    LET st == PageStep(data) IN
    IF st.exc # "none" THEN PageRaised(st.exc, cached, net)
    ELSE /\ records' = records \o st.docs
         /\ warned' = IF st.failure THEN warned \cup {"page " \o IntStr(page)} ELSE warned
         /\ lookups' = Append(lookups,
                              Lookup(page, cached, net,
                                     IF st.failure THEN "skipped" ELSE "ok", st.docs))
         /\ page' = page + 1
         /\ UNCHANGED <<pc, result>>

\* lines 239-243: the key is in the store
ExecuteCached ==
    /\ pc = "loop"
    /\ page < num_steps
    /\ CurrentQueryKey(query_key.v, page) \in DOMAIN cache
    /\ LET parsed == json_loads(cache[CurrentQueryKey(query_key.v, page)]) IN
       IF parsed.exc # "none" THEN PageRaised(parsed.exc, TRUE, "none")
       ELSE PageDone(parsed.data, TRUE, "none")
    /\ UNCHANGED <<api_key, query_url, query_key, includes_fields, cache, stored_by,
                   today, max_records, num_steps, passed, prev, runs, args>>

\* a store that is written whatever urlopen did
StoresAlways(net) == TRUE
\* lines 246-248: the store is assigned once the body has been read and decoded
Stores(net) == net.kind = "body"

\* lines 244-254: the key is not in the store; net is what the network does
ExecuteFetch(net) ==
    /\ pc = "loop"
    /\ page < num_steps
    /\ CurrentQueryKey(query_key.v, page) \notin DOMAIN cache
    /\ IF Stores(net)
       THEN /\ cache' = cache @@ (CurrentQueryKey(query_key.v, page) :> net.raw)
            /\ stored_by' = stored_by
                    @@ (CurrentQueryKey(query_key.v, page) :> CurrentQuery(query_url.v, page))
       ELSE UNCHANGED <<cache, stored_by>>
    /\ IF net.kind = "body"
       THEN LET parsed == json_loads(net.raw) IN
            IF parsed.exc # "none" THEN PageRaised(parsed.exc, FALSE, net.kind)
            ELSE PageDone(parsed.data, FALSE, net.kind)
       ELSE IF net.kind \in TransportErrors
       THEN PageDone(PyStr(<<>>), FALSE, net.kind)
       ELSE PageRaised(net.kind, FALSE, net.kind)
    /\ UNCHANGED <<api_key, query_url, query_key, includes_fields, today,
                   max_records, num_steps, passed, prev, runs, args>>

----------------------------------------------------------------------------
(* NYT.run_query, lines 168-171: trim and build the corpus *)

ReturnCorpus ==
    /\ pc = "loop"
    /\ page >= num_steps
    /\ LET trimmed == Trim(records, max_records)
           parsed == parse_record_json(trimmed, NYT_TEXT_FIELDS)
       IN /\ passed' = trimmed
          /\ IF CorpusExc(parsed) # "none"
             THEN /\ pc' = "raised"
                  /\ result' = ResultOf(CorpusExc(parsed), "corpus", PyNone)
             ELSE /\ pc' = "returned"
                  /\ \E values \in Orderings(LabelSet(parsed.class_values)) :
                        result' = ResultOf("none", "corpus",
                                           generate_corpus(trimmed, NYT_TEXT_FIELDS, values))
    /\ UNCHANGED <<api_key, query_url, query_key, includes_fields, cache, stored_by,
                   today, max_records, num_steps, page, records, lookups, warned,
                   prev, runs, args>>

----------------------------------------------------------------------------
(* Direct calls of the module-level functions, on the arguments drawn in Init *)

CallParseRecordJson ==
    /\ pc = "call"
    /\ LET parsed == parse_record_json(args.records, args.fields) IN
       /\ pc' = IF parsed.exc = "none" THEN "returned" ELSE "raised"
       /\ result' = ResultOf(parsed.exc, "parse", parsed)
    /\ UNCHANGED <<api_key, query_url, query_key, includes_fields, cache, stored_by,
                   today, max_records, num_steps, page, records, lookups, warned,
                   passed, prev, runs, args>>

CallGenerateCorpus ==
    /\ pc = "call"
    /\ LET parsed == parse_record_json(args.records, args.fields) IN
       IF CorpusExc(parsed) # "none"
       THEN /\ pc' = "raised"
            /\ result' = ResultOf(CorpusExc(parsed), "corpus", PyNone)
       ELSE /\ pc' = "returned"
            /\ \E values \in Orderings(LabelSet(parsed.class_values)) :
                  result' = ResultOf("none", "corpus",
                                     generate_corpus(args.records, args.fields, values))
    /\ passed' = args.records
    /\ UNCHANGED <<api_key, query_url, query_key, includes_fields, cache, stored_by,
                   today, max_records, num_steps, page, records, lookups, warned,
                   prev, runs, args>>

----------------------------------------------------------------------------
(* Spec: one query, run repeatedly; every response of the network *)

TenDocs == [k \in 1..PageSize |-> IF k % 2 = 1 THEN DocA ELSE DocE]

\* a docs member that is a str
DocsText == PyStr(<<"a", "b">>)
\* a docs member that is an object, one key listed twice
DocsObject == PyObj(<<<<<<"k">>, PyNone>>, <<<<"j">>, PyStr(<<>>)>>, <<<<"k">>, PyStr(<<"v">>)>>>>)
Responses ==
    {NotJson, JsonNull, NoResponse, NoDocs, NullResponse, JsonStr(ResponseWord),
     Docs(<<>>), Docs(<<DocA, DocB>>), Docs(<<DocE>>), Docs(TenDocs), DocsIs(DocsText)}
NetOutcomes == {HTTPError, NoReadall, NotUtf8} \cup {Body(r) : r \in Responses}

MaxRecordsInputs == {-3, 1, 11}
ProbeOutcomes == {"200", "204", "HTTPError", "URLError"}

Init == InitWith(Key0, Today0)

Next ==
    \/ \E m \in MaxRecordsInputs, probe \in ProbeOutcomes :
          RunQuery(Query0, PyNone, PyNone, m, probe)
    \/ ExecuteCached
    \/ \E net \in NetOutcomes : ExecuteFetch(net)
    \/ ReturnCorpus

Spec == Init /\ [][Next]_vars

----------------------------------------------------------------------------
(* SpecPaging: the page loop up to and beyond the 100-page cap *)

PagingMaxRecords == {-3, 0, 1, 11, 990, 1001}
PagingOutcomes(p) ==
    IF p < FreePages THEN {URLError, Body(NoResponse), Body(NullDocs), Body(Docs(<<DocE>>))}
    ELSE {Body(Docs(<<>>))}

NextPaging ==
    \/ \E m \in PagingMaxRecords : RunQuery(Query0, PyNone, PyNone, m, "200")
    \/ ExecuteCached
    \/ \E net \in PagingOutcomes(page) : ExecuteFetch(net)
    \/ ReturnCorpus

SpecPaging == Init /\ [][NextPaging]_vars

----------------------------------------------------------------------------
(* SpecKeys: several queries, year bounds, API keys and days on one cache store *)

Queries == {<<"a", " ", "b">>, <<"a", "_", "b">>, <<"a", "+", "b">>}
YearsFrom == {PyNone, PyStr(<<"2", "0", "2", "0">>), PyStr(<<"1", "8", "x">>)}
YearsTo == {PyNone, PyStr(<<"2", "0", "2", "6">>)}
KeysOutcomes ==
    {URLError, Body(Docs(<<DocC>>)), Body(Docs(<<DocE>>)), Body(DocsIs(DocsObject)),
     Body(DocsIs(PyObj(<<>>)))}
LastDay == <<2027, 1, 1>>

NextKeys ==
    \/ \E k \in KeyInputs : Construct(k)
    \/ DayPasses(LastDay)
    \/ \E q \in Queries, yf \in YearsFrom, yt \in YearsTo : RunQuery(q, yf, yt, 1, "200")
    \/ ExecuteCached
    \/ \E net \in KeysOutcomes : ExecuteFetch(net)
    \/ ReturnCorpus

SpecKeys == Init /\ [][NextKeys]_vars

----------------------------------------------------------------------------
(* SpecParse: _parse_record_json and _generate_corpus on every record shape *)

HeadlineValues ==
    {Absent, PyNone, PyStr(<<"h">>), PyObj(<<>>),
     PyObj(<<<<<<"m">>, PyStr(<<"x">>)>>, <<<<"p">>, PyStr(<<>>)>>, <<<<"n">>, PyNone>>,
             <<<<"k">>, PyStr(<<"k">>)>>, <<<<"m">>, PyStr(<<"m">>)>>>>),
     PyObj(<<<<<<"m">>, PyStr(<<>>)>>, <<<<"n">>, PyNone>>>>)}
LeadValues == {Absent, PyNone, PyStr(<<>>), PyStr(<<"l", " ">>)}
SnippetValues == {Absent, PyStr(<<"s">>)}
AbstractValues == {Absent, PyStr(<<>>), PyStr(<<"a", "\r">>)}
KeywordValues ==
    {Absent, PyNone, PyStr(<<>>), PyStr(<<"x">>), PyObj(<<>>),
     PyObj(<<<<<<"v">>, PyStr(<<"v">>)>>>>),
     PyList(<<>>), PyList(<<GlocP>>), PyList(<<SubjA, PersB>>),
     PyList(<<SubjA, GlocR, PersB, GlocP>>), PyList(<<EmptyObj, GlocP>>),
     PyList(<<[name |-> "glocations"]>>), PyList(<<[name |-> "subject"], GlocR>>)}
PubDateValues == {Absent, PyNone, PyStr(<<>>), PyStr(<<"2", "0">>)}
SectionValues == {Absent, PyNone, PyStr(<<"W">>)}

RecordShapes ==
    {Doc(h, lp, sn, ab, kw, pd, sec) :
        h \in HeadlineValues, lp \in LeadValues, sn \in SnippetValues,
        ab \in AbstractValues, kw \in KeywordValues, pd \in PubDateValues,
        sec \in SectionValues}
SomeDocs == {DocA, DocB, DocC, DocD, DocE}
RecordLists ==
    {<<>>} \cup {<<d>> : d \in RecordShapes} \cup {<<a, b>> : a, b \in SomeDocs}
FieldLists ==
    {NYT_TEXT_FIELDS, <<"headline">>, <<"keywords", "abstract">>, <<>>}

InitParse ==
    /\ api_key = Strip(Key0)
    /\ query_url = PyNone
    /\ query_key = PyNone
    /\ includes_fields = PyNone
    /\ cache = <<>>
    /\ stored_by = <<>>
    /\ today = Today0
    /\ pc = "call"
    /\ max_records = 0
    /\ num_steps = 0
    /\ page = 0
    /\ records = <<>>
    /\ lookups = <<>>
    /\ warned = {}
    /\ result = NoResult
    /\ passed = <<>>
    /\ prev = NoPrev
    /\ runs = 0
    /\ args \in [records : RecordLists, fields : FieldLists]

NextParse == CallParseRecordJson \/ CallGenerateCorpus

SpecParse == InitParse /\ [][NextParse]_vars

----------------------------------------------------------------------------
(* Properties *)

Key(p) == CurrentQueryKey(query_key.v, p)
Url(p) == CurrentQuery(query_url.v, p)
\* the docs list a stored raw response carries, if it carries one
HasDocs(raw) ==
    /\ raw.valid
    /\ raw.data.t = "obj"
    /\ HasKey(raw.data, ResponseWord)
    /\ Get(raw.data, ResponseWord).t = "obj"
    /\ HasKey(Get(raw.data, ResponseWord), DocsWord)
\* the records a stored raw response holds: the items of a docs list, the
\* characters of a docs string, the keys of a docs object
DocsOfRaw(raw) ==
    IF ~HasDocs(raw) THEN <<>>
    ELSE LET d == Get(Get(raw.data, ResponseWord), DocsWord) IN
         CASE d.t = "list" -> d.v
           [] d.t = "str" -> [k \in 1..Len(d.v) |-> PyStr(<<d.v[k]>>)]
           [] d.t = "obj" -> [k \in 1..Len(Keys(d)) |-> PyStr(Keys(d)[k])]
           [] OTHER -> <<>>

\* the run in progress is the second run of one query, the first having started
\* on the empty store
SameQueryTwice ==
    /\ runs = 2
    /\ prev.run = 1
    /\ query_url # PyNone
    /\ prev.query_url = query_url
    /\ prev.query_key = query_key
    /\ prev.max_records = max_records

\* network requests for page p over both runs
Requested(ls, p) == Cardinality({k \in 1..Len(ls) : ls[k].page = p /\ ~ls[k].cached})
NetRequests(p) == Requested(prev.lookups, p) + Requested(lookups, p)

\* C1 as claimed: when one query is run twice from an empty cache and both runs
\* return, every page is requested from the network exactly once over both runs,
\* the second run is served from the cache alone and passes on the same records,
\* whatever the first run's pages did (success, transport error, no 'response').
C1_EveryPageOnce ==
    (SameQueryTwice /\ prev.pc = "returned" /\ pc = "returned") =>
        /\ \A k \in 1..Len(lookups) : lookups[k].cached
        /\ \A p \in 0..(num_steps - 1) : NetRequests(p) = 1
        /\ passed = prev.passed

\* C1 as amended: in the second run of one query, every page whose first fetch
\* brought a response body is a cache hit with the same contribution and was
\* requested exactly once over both runs; a page whose first fetch ended in a
\* transport error or in a failed read of the response is requested again; and
\* a second run that reaches the table builder after a first run whose every
\* page brought a body has asked the network nothing and ends as the first
\* did, on the same records in the same order.
C1_CachedPagesOnce ==
    SameQueryTwice =>
        /\ \A k \in 1..Len(lookups) :
              k <= Len(prev.lookups) =>
                 IF prev.lookups[k].net # "body"
                 THEN ~lookups[k].cached /\ NetRequests(k - 1) = 2
                 ELSE /\ lookups[k].cached
                      /\ NetRequests(k - 1) = 1
                      /\ lookups[k].docs = prev.lookups[k].docs
                      /\ lookups[k].outcome = prev.lookups[k].outcome
        /\ (/\ result.at = "corpus"
            /\ \A k \in 1..Len(prev.lookups) : prev.lookups[k].net = "body")
           => /\ Len(lookups) = Len(prev.lookups)
              /\ \A k \in 1..Len(lookups) : lookups[k].cached
              /\ passed = prev.passed
              /\ result.exc = prev.exc
              /\ pc = prev.pc

\* the second run of a two-page query has returned; the first run fetched a body
\* without 'response' for one page and records for the other
C1_Witness ==
    /\ SameQueryTwice
    /\ pc = "returned"
    /\ Len(lookups) = 2
    /\ Len(prev.lookups) = 2
    /\ \E k \in 1..2 : prev.lookups[k].outcome = "skipped" /\ prev.lookups[k].net = "body"
    /\ passed # <<>>
    /\ \A k \in 1..2 : lookups[k].cached

\* C2: once run_query has trimmed, for max_records >= 1, the list handed to the
\* table builder is the first max_records retrieved records when more were
\* retrieved, and the retrieved list itself otherwise.
C2_TrimIsPrefix ==
    (result.at = "corpus" /\ max_records >= 1) =>
        IF Len(records) > max_records
        THEN /\ Len(passed) = max_records
             /\ \A k \in 1..max_records : passed[k] = records[k]
        ELSE passed = records

\* twenty records were retrieved for max_records = 11, and trimmed
C2_Witness ==
    /\ result.at = "corpus"
    /\ max_records = 11
    /\ Len(records) = 20
    /\ Len(passed) = 11

\* the number of pages of a request for m records
ExpectedPages(m) ==
    IF m <= 0 THEN 0
    ELSE IF (m + 9) \div 10 > 100 THEN 100
    ELSE (m + 9) \div 10

\* C3: in every run the pages looked up so far are
\* 0, 1, 2, ... in this order, one per turn of the loop, never more than
\* min(ceil(max_records / 10), 100) of them and never a page index >= 100; a run
\* that reaches the table builder has looked up all of them, none when
\* max_records <= 0; max_records > 1000 only adds a warning.
C3_PagesInOrder ==
    /\ Len(lookups) <= ExpectedPages(max_records)
    /\ \A k \in 1..Len(lookups) : lookups[k].page = k - 1 /\ lookups[k].page < 100
    /\ pc = "loop" => page = Len(lookups)
    /\ result.at = "corpus" => Len(lookups) = ExpectedPages(max_records)
    /\ max_records <= 0 => lookups = <<>>
    /\ (runs > 0 /\ result.at # "probe") =>
          (max_records > 1000 <=> "more than 1000 records" \in warned)

\* a run for more than 1000 records has returned after 100 pages
C3_Witness ==
    /\ max_records > 1000
    /\ pc = "returned"
    /\ Len(lookups) = 100
    /\ lookups[100].page = 99
    /\ \E k \in 1..100 : lookups[k].cached
    /\ \E k \in 1..100 : ~lookups[k].cached

\* the records the pages 0..n-1 hold in the store, page after page
RECURSIVE StoredDocs(_)
StoredDocs(n) ==
    IF n <= 0 THEN <<>>
    ELSE StoredDocs(n - 1)
         \o (IF Key(n - 1) \in DOMAIN cache THEN DocsOfRaw(cache[Key(n - 1)]) ELSE <<>>)

\* the parsed body of a stored response lacks 'response' or 'response.docs'
LacksDocs(raw) == raw.valid /\ ~HasDocs(raw)

\* C4 as claimed: a page that ends in a transport error, or whose parsed body
\* lacks 'response' or 'response.docs', is skipped: it contributes nothing and
\* the loop goes on to the next page; when the loop is over every page has
\* been looked up and the collected records are the docs of the pages that
\* succeeded, in page order (none if every page failed).
C4_FailedPageSkipped ==
    /\ \A k \in 1..Len(lookups) :
          LET l == lookups[k] IN
          (\/ l.net \in TransportErrors
           \/ (Key(l.page) \in DOMAIN cache /\ LacksDocs(cache[Key(l.page)]))) =>
             /\ l.outcome = "skipped"
             /\ l.docs = <<>>
             /\ (k = Len(lookups) => (pc = "loop" /\ page = k) \/ result.at = "corpus")
    /\ result.at = "corpus" =>
          /\ Len(lookups) = num_steps
          /\ records = StoredDocs(num_steps)
          /\ (\A k \in 1..Len(lookups) : lookups[k].outcome = "skipped") => records = <<>>

\* C5 as claimed: run_query never ends by raising.
C5_NeverRaises == pc # "raised"

\* the keywords of a record are a list of objects that all have a name and a value
KeywordsWellFormed(doc) ==
    /\ doc["keywords"].t = "list"
    /\ \A k \in 1..Len(doc["keywords"].v) :
          {"name", "value"} \subseteq DOMAIN doc["keywords"].v[k]

\* a field of a record holds no text: it is missing, null, "", [] or a dict of
\* empty values
NoText(x) ==
    \/ x.t \in {"absent", "none"}
    \/ x.t = "str" /\ x.v = <<>>
    \/ x.t = "list" /\ x.v = <<>>
    \/ x.t = "obj" /\ \A k \in 1..Len(Values(x)) : Values(x)[k] \in {PyNone, PyStr(<<>>)}

\* C6 as claimed: _parse_record_json gives every record a row of
\* len(fields) + 2 entries, entry k belonging to field k; a field without text,
\* missing ones included, gives None in its position, and no entry is "".
C6_FixedWidthRows ==
    (/\ result.at = "parse"
     /\ \A k \in 1..Len(args.records) : KeywordsWellFormed(args.records[k])) =>
        /\ result.exc = "none"
        /\ Len(result.value.metadata) = Len(args.records)
        /\ \A k \in 1..Len(args.records) :
              LET row == result.value.metadata[k] IN
              /\ Len(row) = Len(args.fields) + 2
              /\ \A j \in 1..Len(row) : row[j] # PyStr(<<>>)
              /\ \A j \in 1..Len(args.fields) :
                    NoText(args.records[k][args.fields[j]]) => row[j] = PyNone

\* the values of the glocation keywords of a list of keywords, in their order
RECURSIVE GlocationValues(_)
GlocationValues(kws) ==
    IF kws = <<>> THEN <<>>
    ELSE (IF Head(kws).name = "glocations" THEN <<Head(kws).value>> ELSE <<>>)
         \o GlocationValues(Tail(kws))

\* a, b, c joined as a,b,c
RECURSIVE CommaJoined(_)
CommaJoined(vs) ==
    IF vs = <<>> THEN <<>>
    ELSE IF Len(vs) = 1 THEN vs[1]
    ELSE CommaJoined(SubSeq(vs, 1, Len(vs) - 1)) \o <<",">> \o vs[Len(vs)]

\* C7: in every row _parse_record_json returns, the last column is the
\* comma-joined values of the record's glocation keywords, in their order in
\* the keywords list, keywords of other categories left out, and None when the
\* record has no glocation keyword.
C7_CountryColumn ==
    (result.at = "parse" /\ result.exc = "none") =>
        \A k \in 1..Len(args.records) :
           LET row == result.value.metadata[k]
               kws == args.records[k]["keywords"]
               gv == GlocationValues(IF kws.t = "list" THEN kws.v ELSE <<>>)
           IN row[Len(row)] = IF gv = <<>> THEN PyNone ELSE PyStr(CommaJoined(gv))

\* a record with two glocation keywords among keywords of two other categories
C7_Witness ==
    /\ result.at = "parse"
    /\ result.exc = "none"
    /\ Len(args.records) = 1
    /\ args.records[1]["keywords"] = PyList(<<SubjA, GlocR, PersB, GlocP>>)
    /\ result.value.metadata[1][Len(args.fields) + 2] = PyStr(<<"R", ",", "P">>)

\* C8: whenever run_query reaches the table builder, the builder returns for an
\* empty record list a table of no document, no metadata row, no label and no
\* label value; the record list is empty when no page contributed a record;
\* and every table returned has as many documents, metadata rows and labels as
\* records were handed over.
C8_RowCounts ==
    result.at = "corpus" =>
        /\ (\A k \in 1..Len(lookups) : lookups[k].docs = <<>>) => passed = <<>>
        /\ passed = <<>> =>
              /\ pc = "returned"
              /\ result.value.documents = <<>>
              /\ result.value.metas = <<>>
              /\ result.value.Y = <<>>
              /\ result.value.class_var_values = <<>>
        /\ pc = "returned" =>
              /\ Len(result.value.documents) = Len(passed)
              /\ Len(result.value.metas) = Len(passed)
              /\ Len(result.value.Y) = Len(passed)

\* a two-page run in which both pages failed has returned the empty table
C8_Witness ==
    /\ pc = "returned"
    /\ result.at = "corpus"
    /\ Len(lookups) = 2
    /\ \A k \in 1..2 : lookups[k].outcome = "skipped"
    /\ result.value.documents = <<>>
    /\ result.value.class_var_values = <<>>

\* C9 as claimed: a response served from the cache was stored by a fetch of the
\* very URL the current call would request.
C9_HitIsSameRequest ==
    \A k \in 1..Len(lookups) :
       lookups[k].cached => stored_by[Key(lookups[k].page)] = Url(lookups[k].page)

\* C10 as claimed: a page that run_query skipped as a failure has no entry under
\* its cache key.
C10_FailedNotCached ==
    \A k \in 1..Len(lookups) :
       lookups[k].outcome = "skipped" => Key(lookups[k].page) \notin DOMAIN cache

\* what the store holds after the turns of the current run
StoreAfterLookups ==
    \A k \in 1..Len(lookups) :
       LET l == lookups[k] IN
       /\ (l.net \notin {"body", "none"} => Key(l.page) \notin DOMAIN cache)
       /\ (l.net = "body" =>
             /\ Key(l.page) \in DOMAIN cache
             /\ stored_by[Key(l.page)] = Url(l.page)
             /\ (l.outcome = "ok" => DocsOfRaw(cache[Key(l.page)]) = l.docs)
             /\ (l.outcome = "skipped" => LacksDocs(cache[Key(l.page)]))
             /\ (l.outcome = "raised" => DocsOfRaw(cache[Key(l.page)]) = <<>>))
       /\ (l.cached => Key(l.page) \in DOMAIN cache)

\* no step changes or removes an entry of the store
AppendOnly ==
    \A key \in DOMAIN cache : key \in DOMAIN cache' /\ cache'[key] = cache[key]

\* C10 as amended: a page whose fetch ended in a transport error or in a failed
\* read has no entry under its cache key; a page whose body was read has that
\* body under its key, also when the page was then skipped because the body
\* lacks 'response' or 'docs'; and an entry once written is never overwritten or
\* removed.
C10_OnlyBodiesCached == [][AppendOnly /\ StoreAfterLookups']_vars

\* a run has skipped one page for a transport error and one for its body
C10_Witness ==
    /\ Len(lookups) = 2
    /\ lookups[1].outcome = "skipped"
    /\ lookups[1].net = "body"
    /\ lookups[2].net = "HTTPError"
    /\ Key(0) \in DOMAIN cache
    /\ Key(1) \notin DOMAIN cache

====
